---- MODULE Spec2Model ----
(***************************************************************************)
(* Password data-breach checker (src/main.rs): the k-anonymity lookup.     *)
(* Text is modelled as a sequence of one-character strings, a SHA-1 digest *)
(* as the 20 bytes the hasher returns, and a u64 as four 16-bit limbs      *)
(* (least significant first), so that formatting, slicing, parsing and     *)
(* 64-bit overflow are computed rather than assumed.                       *)
(***************************************************************************)
EXTENDS Integers, Sequences, FiniteSets, Bags, TLC

VARIABLES
    password,         \* App.password
    current_hash,     \* App.current_hash
    show,             \* App.show
    state,            \* App.state : SearchResult
    tasks,            \* lookup tasks returned by update and not yet finished
    requests,         \* bag of the requests handed to the transport so far
    overflow_checks,  \* build profile: does integer overflow panic (dev) or wrap (release)
    msg,              \* the message update processed last
    prev,             \* kind of App.state before that message
    resolved_edit,    \* an Input replaced a Breaches outcome and no Submit followed yet
    nSubmits,         \* Submit messages processed
    text,             \* argument `input` of parse_results and BreachResult::new
    digest,           \* argument `hash` of BreachResult::new
    parsed,           \* result of parse_results(text)
    matched,          \* result of BreachResult::new(text, digest)
    stage             \* which of the two functions has been applied

vars == <<password, current_hash, show, state, tasks, requests, overflow_checks,
          msg, prev, resolved_edit, nSubmits,
          text, digest, parsed, matched, stage>>

appVars == <<password, current_hash, show, state, tasks, requests,
             msg, prev, resolved_edit, nSubmits>>

fnVars == <<text, digest, parsed, matched, stage>>

-----------------------------------------------------------------------------
(* Bounds of the model.                                                    *)

MaxSubmits == 2

MaxLines == 2

-----------------------------------------------------------------------------
(* Characters and text.                                                    *)

HexDigits == <<"0", "1", "2", "3", "4", "5", "6", "7", "8", "9", "A", "B", "C", "D", "E", "F">>

DecDigits == <<"0", "1", "2", "3", "4", "5", "6", "7", "8", "9">>

LowerOf(c) ==
    CASE c = "A" -> "a" [] c = "B" -> "b" [] c = "C" -> "c"
      [] c = "D" -> "d" [] c = "E" -> "e" [] c = "F" -> "f" [] OTHER -> c

ToLower(s) == [i \in 1..Len(s) |-> LowerOf(s[i])]

\* char::to_digit(10): the digit's value, or -1 for a character that is no digit
ToDigit(c) == IF \E d \in 1..10 : DecDigits[d] = c
              THEN (CHOOSE d \in 1..10 : DecDigits[d] = c) - 1
              ELSE -1

-----------------------------------------------------------------------------
(* u64: four 16-bit limbs, least significant first.                        *)

U64Bits == 64

LimbBase == 2 ^ 16

NLimbs == U64Bits \div 16

Radix == 10

PrefixLen == 5

U64Zero == [i \in 1..NLimbs |-> 0]

U64Max == [i \in 1..NLimbs |-> LimbBase - 1]

\* a small natural number (below 2^31) as a u64
ToU64(n) == [i \in 1..NLimbs |->
                IF i = 1 THEN n % LimbBase ELSE IF i = 2 THEN n \div LimbBase ELSE 0]

RECURSIVE CarryInto(_, _, _, _)
\* limbs x with limb i onwards replaced by x[i] * m + the carry from below;
\* returns <<limbs, carry out of the top limb>>
CarryInto(x, m, carry, i) ==
    IF i > NLimbs THEN <<x, carry>>
    ELSE LET v == x[i] * m + carry
         IN  CarryInto([x EXCEPT ![i] = v % LimbBase], m, v \div LimbBase, i + 1)

\* u64::checked_mul(x, m) followed by checked_add(d), for m and d below Radix
CheckedMulAdd(x, m, d) ==
    LET r == CarryInto(x, m, d, 1)
    IN  [ok |-> r[2] = 0, val |-> r[1]]

RECURSIVE AddLimbs(_, _, _, _)
AddLimbs(x, y, carry, i) ==
    IF i > NLimbs THEN <<x, carry>>
    ELSE LET v == x[i] + y[i] + carry
         IN  AddLimbs([x EXCEPT ![i] = v % LimbBase], y, v \div LimbBase, i + 1)

\* x + y on u64: the wrapped value and whether the true sum left the 64 bits
OverflowingAdd(x, y) ==
    LET r == AddLimbs(x, y, 0, 1)
    IN  [val |-> r[1], overflow |-> r[2] # 0]

-----------------------------------------------------------------------------
(* Digest Engine: hash_password.                                           *)

Passwords == {"", "password", "pass611807"}

\* Sha1::new(); update(pass.as_bytes()); finalize(): the 20 bytes of SHA-1
Sha1(pass) ==
    CASE pass = "password" ->
           <<91, 170, 97, 228, 201, 185, 63, 63, 6, 130,
             37, 11, 108, 248, 51, 27, 126, 230, 143, 216>>
      [] pass = "pass611807" ->
           <<91, 170, 98, 253, 125, 74, 150, 178, 108, 184,
             26, 11, 34, 220, 199, 91, 16, 177, 79, 79>>

RECURSIVE UpperHex(_)
\* format!("{:X}", hash): two uppercase hexadecimal digits per byte
UpperHex(bytes) ==
    IF bytes = <<>> THEN <<>>
    ELSE <<HexDigits[(Head(bytes) \div 16) + 1], HexDigits[(Head(bytes) % 16) + 1]>>
         \o UpperHex(Tail(bytes))

\* the digest formatted with {:x} instead of {:X}
hash_password_LowerHex(pass) ==
    IF pass = "" THEN <<>> ELSE ToLower(UpperHex(Sha1(pass)))

hash_password(pass) ==
    IF pass = "" THEN <<>> ELSE UpperHex(Sha1(pass))

-----------------------------------------------------------------------------
(* String slicing: &s[n..] and &s[..n] panic when n is beyond the end.     *)

SliceDefined(s, n) == n <= Len(s)

SliceFrom(s, n) == SubSeq(s, n + 1, Len(s))

SliceTo(s, n) == SubSeq(s, 1, n)

-----------------------------------------------------------------------------
(* Range Response Parser: parse_results.                                   *)

RECURSIVE ScanFor(_, _, _)
ScanFor(s, c, i) ==
    IF i > Len(s) THEN 0 ELSE IF s[i] = c THEN i ELSE ScanFor(s, c, i + 1)

\* position of the first occurrence of character c in s, 0 when there is none
FindChar(s, c) == ScanFor(s, c, 1)

\* one item of str::lines: the "\n" is removed, and a "\r" right before it
StripLineEnding(piece) ==
    LET n == Len(piece)
    IN  IF n = 0 \/ piece[n] # "\n" THEN piece
        ELSE IF n >= 2 /\ piece[n - 1] = "\r" THEN SubSeq(piece, 1, n - 2)
        ELSE SubSeq(piece, 1, n - 1)

RECURSIVE Lines(_)
\* str::lines: split after every "\n"; a final piece without "\n" is a line too
Lines(s) ==
    IF s = <<>> THEN <<>>
    ELSE LET k == FindChar(s, "\n")
         IN  IF k = 0 THEN <<s>>
             ELSE <<StripLineEnding(SubSeq(s, 1, k))>> \o Lines(SubSeq(s, k + 1, Len(s)))

\* mutant: the line is split at its last colon (rsplit_once)
SplitOnce_AtLastColon(line) ==
    LET ks == {i \in 1..Len(line) : line[i] = ":"}
        k  == IF ks = {} THEN 0 ELSE CHOOSE i \in ks : \A j \in ks : j <= i
    IN  IF k = 0 THEN [some |-> FALSE, left |-> <<>>, right |-> <<>>]
        ELSE [some |-> TRUE, left |-> SubSeq(line, 1, k - 1),
              right |-> SubSeq(line, k + 1, Len(line))]

\* str::split_once(':')
SplitOnce(line) ==
    LET k == FindChar(line, ":")
    IN  IF k = 0 THEN [some |-> FALSE, left |-> <<>>, right |-> <<>>]
        ELSE [some |-> TRUE, left |-> SubSeq(line, 1, k - 1),
              right |-> SubSeq(line, k + 1, Len(line))]

RECURSIVE ParseDigits(_, _)
\* the digit loop of from_str_radix: result = result * 10 + digit, checked
ParseDigits(digits, acc) ==
    IF digits = <<>> THEN [ok |-> TRUE, val |-> acc]
    ELSE LET d == ToDigit(Head(digits))
         IN  IF d < 0 THEN [ok |-> FALSE, val |-> U64Zero]
             ELSE LET r == CheckedMulAdd(acc, Radix, d)
                  IN  IF ~r.ok THEN [ok |-> FALSE, val |-> U64Zero]
                      ELSE ParseDigits(Tail(digits), r.val)

\* u64::from_str_radix(src, 10): empty text and a lone sign are errors, one
\* leading "+" is accepted, "-" is no digit of an unsigned type
FromStrRadix(src) ==
    IF src = <<>> THEN [ok |-> FALSE, val |-> U64Zero]
    ELSE IF Len(src) = 1 /\ src[1] \in {"+", "-"} THEN [ok |-> FALSE, val |-> U64Zero]
    ELSE IF src[1] = "+" THEN ParseDigits(Tail(src), U64Zero)
    ELSE ParseDigits(src, U64Zero)

RECURSIVE ParseLines(_)
\* the two filter_map stages over the lines, in order
ParseLines(ls) ==
    IF ls = <<>> THEN <<>>
    ELSE LET sp == SplitOnce(Head(ls))
             n  == FromStrRadix(sp.right)
         IN  (IF sp.some /\ n.ok THEN << <<sp.left, n.val>> >> ELSE <<>>)
             \o ParseLines(Tail(ls))

parse_results(input) == ParseLines(Lines(input))

-----------------------------------------------------------------------------
(* Breach Matcher: BreachResult::new.                                      *)

\* mutant: the candidate is compared with the whole digest
SuffixMatches_WholeHash(hash_suffix, hash) == hash_suffix = hash

\* the filter closure: *hash_suffix == &hash[5..]
SuffixMatches(hash_suffix, hash) == hash_suffix = SliceFrom(hash, PrefixLen)

FilterEntries(cands, hash) ==
    SelectSeq(cands, LAMBDA c : SuffixMatches(c[1], hash))

RECURSIVE SumCounts(_, _, _)
\* Iterator::sum over u64: panics on overflow when overflow checks are
\* compiled in (checks), wraps otherwise
SumCounts(entries, acc, checks) ==
    IF entries = <<>> THEN [panicked |-> FALSE, val |-> acc]
    ELSE LET r == OverflowingAdd(acc, Head(entries)[2])
         IN  IF r.overflow /\ checks
             THEN [panicked |-> TRUE, val |-> U64Zero]
             ELSE SumCounts(Tail(entries), r.val, checks)

PanicResult == [panicked |-> TRUE, value |-> [sites |-> 0, ocurances |-> U64Zero]]

\* match(candidates, fullDigest): filter, count, sum
Match(cands, hash, checks) ==
    IF cands # <<>> /\ ~SliceDefined(hash, PrefixLen) THEN PanicResult
    ELSE LET entries == FilterEntries(cands, hash)
             total   == SumCounts(entries, U64Zero, checks)
         IN  IF total.panicked THEN PanicResult
             ELSE [panicked |-> FALSE,
                   value |-> [sites |-> Len(entries), ocurances |-> total.val]]

BreachResult_new(input, hash, checks) == Match(parse_results(input), hash, checks)

-----------------------------------------------------------------------------
(* Response texts.                                                         *)

SufA == SliceFrom(hash_password("password"), PrefixLen)

SufB == SliceFrom(hash_password("pass611807"), PrefixLen)

Count3730471 == <<"3", "7", "3", "0", "4", "7", "1">>

CountMax == <<"1", "8", "4", "4", "6", "7", "4", "4", "0", "7", "3", "7", "0", "9", "5", "5", "1", "6", "1", "5">>

CountTooBig == <<"1", "8", "4", "4", "6", "7", "4", "4", "0", "7", "3", "7", "0", "9", "5", "5", "1", "6", "1", "6">>

\* what the range service answers for prefix 5BAA6: CRLF between the records
BodyRange == SufA \o <<":">> \o Count3730471 \o <<"\r", "\n">> \o SufB \o <<":", "7">>

\* a record in the other letter case only
BodyLower == ToLower(SufA) \o <<":", "9", "\n">>

\* two records for one suffix whose counts do not fit in 64 bits together
BodyHuge == SufA \o <<":">> \o CountMax \o <<"\n">> \o SufA \o <<":", "5", "\n">>

\* an error page
BodyNotice == <<"R", "a", "t", "e", " ", "l", "i", "m", "i", "t">>

Bodies == {BodyRange, BodyLower, BodyHuge, BodyNotice}

-----------------------------------------------------------------------------
(* Lookup Orchestrator: search, and the transport it awaits.               *)

BaseUrl == <<"h", "t", "t", "p", "s", ":", "/", "/", "a", "p", "i", ".", "p", "w", "n", "e", "d", "p", "a", "s", "s", "w", "o", "r", "d", "s", ".", "c", "o", "m", "/", "r", "a", "n", "g", "e", "/">>

\* mutant: the whole digest is put in the request
RequestUrl_WholeHash(hash) == BaseUrl \o hash

\* format!("https://api.pwnedpasswords.com/range/{}", &hash[..5])
RequestUrl(hash) == BaseUrl \o SliceTo(hash, PrefixLen)

SendErrorText == "error sending request"

BodyErrorText == "error decoding response body"

NoTransport == [kind |-> "none", status |-> 0, body |-> <<>>]

\* what send().await and text().await can produce: a connection error, a
\* response whose body cannot be read, a response with its status and body
Transports ==
    {[kind |-> "send_err", status |-> 0, body |-> <<>>],
     [kind |-> "text_err", status |-> 200, body |-> <<>>],
     [kind |-> "ok", status |-> 200, body |-> BodyRange],
     [kind |-> "ok", status |-> 200, body |-> BodyLower],
     [kind |-> "ok", status |-> 200, body |-> BodyHuge],
     [kind |-> "ok", status |-> 429, body |-> BodyNotice]}

NoBreach == [sites |-> 0, ocurances |-> U64Zero]

\* the rest of search after send(): `?` on both awaits, then BreachResult::new,
\* with map_err(|e| e.to_string()) applied
SearchFinish(hash, tr, checks) ==
    IF tr.kind = "send_err" THEN [kind |-> "err", breach |-> NoBreach, error |-> SendErrorText]
    ELSE IF tr.kind = "text_err" THEN [kind |-> "err", breach |-> NoBreach, error |-> BodyErrorText]
    ELSE LET r == BreachResult_new(tr.body, hash, checks)
         IN  IF r.panicked THEN [kind |-> "panic", breach |-> NoBreach, error |-> ""]
             ELSE [kind |-> "ok", breach |-> r.value, error |-> ""]

\* the digests a lookup task can hold
TaskHashes == {hash_password(p) : p \in Passwords}

\* SearchFinish tabulated over the finitely many lookups of the model
SearchTable ==
    [checks \in BOOLEAN, h \in TaskHashes, tr \in Transports |-> SearchFinish(h, tr, checks)]

\* the lookup matching against the digest shown now, not the one it captured
SearchOutcome_CurrentHash(hash, tr) == SearchTable[overflow_checks, current_hash, tr]

SearchOutcome(hash, tr) == SearchTable[overflow_checks, hash, tr]

-----------------------------------------------------------------------------
(* Outcome State: SearchResult, and App::update.                           *)

NotSubmitted == [kind |-> "NotSubmitted"]

Searching == [kind |-> "Searching"]

Breaches(b) == [kind |-> "Breaches", breach |-> b]

Errored(e) == [kind |-> "Errored", error |-> e]

Msg(k, t, tr) == [kind |-> k, task |-> t, transport |-> tr]

NoTask == [id |-> 0, hash |-> <<>>, pw |-> "", pc |-> "none"]


\* the shown digest is not recomputed when the password is edited
UpdateInput_KeepsHash(input) ==
    /\ password' = input
    /\ state' = NotSubmitted
    /\ UNCHANGED <<current_hash, show, tasks, requests>>

\* Message::Input(input)
UpdateInput(input) ==
    /\ password' = input
    /\ current_hash' = hash_password(input)
    /\ state' = NotSubmitted
    /\ UNCHANGED <<show, tasks, requests>>

\* the hash the lookup task captures
SubmitHash == hash_password(password)

\* Searching is shown but no lookup task is returned
UpdateSubmit_NoTask ==
    /\ state' = Searching
    /\ UNCHANGED <<password, current_hash, show, tasks, requests>>

\* mutant: the outcome is left as it was
UpdateSubmit_KeepsOutcome ==
    /\ state' = state
    /\ tasks' = tasks \cup {[id |-> nSubmits + 1, hash |-> SubmitHash,
                             pw |-> password, pc |-> "created"]}
    /\ UNCHANGED <<password, current_hash, show, requests>>

\* Message::Submit: the returned Task is the new entry of tasks
UpdateSubmit ==
    /\ state' = Searching
    /\ tasks' = tasks \cup {[id |-> nSubmits + 1, hash |-> SubmitHash,
                             pw |-> password, pc |-> "created"]}
    /\ UNCHANGED <<password, current_hash, show, requests>>

\* mutant: an Err result is shown as "no breaches"
UpdateBreachResult_ErrAsClean(t, r) ==
    /\ state' = Breaches(r.breach)
    /\ tasks' = tasks \ {t}
    /\ UNCHANGED <<password, current_hash, show, requests>>

\* mutant: a failed lookup is started again
UpdateBreachResult_Retry(t, r) ==
    /\ state' = IF r.kind = "ok" THEN Breaches(r.breach) ELSE Errored(r.error)
    /\ tasks' = IF r.kind = "ok" THEN tasks \ {t}
                ELSE (tasks \ {t}) \cup {[t EXCEPT !.pc = "created"]}
    /\ UNCHANGED <<password, current_hash, show, requests>>

\* results tagged with their lookup: only the latest Submit's result is stored
UpdateBreachResult_IgnoresStale(t, r) ==
    /\ state' = IF t.id # nSubmits THEN state
                ELSE IF r.kind = "ok" THEN Breaches(r.breach) ELSE Errored(r.error)
    /\ tasks' = tasks \ {t}
    /\ UNCHANGED <<password, current_hash, show, requests>>

\* Message::BreachResult(breach_result), with the task that produced it
UpdateBreachResult(t, r) ==
    /\ state' = IF r.kind = "ok" THEN Breaches(r.breach) ELSE Errored(r.error)
    /\ tasks' = tasks \ {t}
    /\ UNCHANGED <<password, current_hash, show, requests>>

\* toggling the checkbox also resets the outcome
UpdateShowPassword_ResetsOutcome(b) ==
    /\ show' = b
    /\ state' = NotSubmitted
    /\ UNCHANGED <<password, current_hash, tasks, requests>>

\* Message::ShowPassword(show)
UpdateShowPassword(b) ==
    /\ show' = b
    /\ UNCHANGED <<password, current_hash, state, tasks, requests>>

\* a view that offers Submit whatever the stored password is
ViewOffersSubmit_Always == TRUE

\* App::view: on_submit_maybe / on_press_maybe(password_not_empty.then_some(Submit))
ViewOffersSubmit == password # ""

-----------------------------------------------------------------------------
(* The application: messages from the view, the runtime running the lookup *)
(* tasks, and their results coming back through update.                    *)

IdleFn ==
    /\ text = <<>>
    /\ digest = <<>>
    /\ parsed = <<>>
    /\ matched = PanicResult
    /\ stage = "idle"

\* App::default()
InitApp ==
    /\ password = ""
    /\ current_hash = <<>>
    /\ show = FALSE
    /\ state = NotSubmitted
    /\ tasks = {}
    /\ requests = EmptyBag
    /\ msg = Msg("none", NoTask, NoTransport)
    /\ prev = "none"
    /\ resolved_edit = FALSE
    /\ nSubmits = 0

Init ==
    /\ InitApp
    /\ overflow_checks \in BOOLEAN
    /\ IdleFn

\* text_input(...).on_input(Message::Input)
Input(p) ==
    /\ UpdateInput(p)
    /\ msg' = Msg("Input", NoTask, NoTransport)
    /\ prev' = state.kind
    /\ resolved_edit' = (resolved_edit \/ state.kind = "Breaches")
    /\ UNCHANGED <<nSubmits, overflow_checks, fnVars>>

Submit ==
    /\ ViewOffersSubmit
    /\ nSubmits < MaxSubmits
    /\ UpdateSubmit
    /\ msg' = Msg("Submit", NoTask, NoTransport)
    /\ prev' = state.kind
    /\ resolved_edit' = FALSE
    /\ nSubmits' = nSubmits + 1
    /\ UNCHANGED <<overflow_checks, fnVars>>

\* the runtime polls a new lookup task: search runs up to send().await, or
\* panics in &hash[..5]
PollLookup ==
    \E t \in tasks :
        /\ t.pc = "created"
        /\ IF SliceDefined(t.hash, PrefixLen)
           THEN /\ requests' = requests (+) SetToBag({[task |-> t.id, hash |-> t.hash,
                                                         pw |-> t.pw,
                                                         url |-> RequestUrl(t.hash)]})
                /\ tasks' = (tasks \ {t}) \cup {[t EXCEPT !.pc = "sent"]}
           ELSE /\ requests' = requests
                /\ tasks' = (tasks \ {t}) \cup {[t EXCEPT !.pc = "panicked"]}
        /\ UNCHANGED <<password, current_hash, show, state, msg, prev, resolved_edit,
                       nSubmits, overflow_checks, fnVars>>

\* a lookup task finishes and its result is delivered as Message::BreachResult
BreachResult ==
    \E t \in tasks, tr \in Transports :
        /\ t.pc = "sent"
        /\ LET r == SearchOutcome(t.hash, tr)
           IN  r.kind # "panic" /\ UpdateBreachResult(t, r)
        /\ msg' = Msg("BreachResult", t, tr)
        /\ prev' = state.kind
        /\ UNCHANGED <<resolved_edit, nSubmits, overflow_checks, fnVars>>

\* a lookup task panics inside BreachResult::new: no message is ever delivered
LookupPanics ==
    \E t \in tasks, tr \in Transports :
        /\ t.pc = "sent"
        /\ SearchOutcome(t.hash, tr).kind = "panic"
        /\ tasks' = (tasks \ {t}) \cup {[t EXCEPT !.pc = "panicked"]}
        /\ UNCHANGED <<password, current_hash, show, state, requests, msg, prev,
                       resolved_edit, nSubmits, overflow_checks, fnVars>>

\* checkbox(...).on_toggle(Message::ShowPassword)
ShowPassword(b) ==
    /\ UpdateShowPassword(b)
    /\ msg' = Msg("ShowPassword", NoTask, NoTransport)
    /\ prev' = state.kind
    /\ UNCHANGED <<resolved_edit, nSubmits, overflow_checks, fnVars>>

Next ==
    \/ \E p \in Passwords : Input(p)
    \/ Submit
    \/ PollLookup
    \/ BreachResult
    \/ LookupPanics
    \/ \E b \in BOOLEAN : ShowPassword(b)

Spec == Init /\ [][Next]_vars

-----------------------------------------------------------------------------
(* The parser and the matcher on their own: parse_results and              *)
(* BreachResult::new applied to response texts built from whole lines.     *)

LinePieces ==
    { SufA \o <<":">> \o Count3730471 \o <<"\r", "\n">>,
      SufA \o <<":", "5", "\n">>,
      SufB \o <<":", "7", "\n">>,
      SufA \o <<":">> \o CountMax \o <<"\n">>,
      SufA \o <<":">> \o CountTooBig \o <<"\n">>,
      SufA \o <<":", "+", "5", "\n">>,
      SufA \o <<":", "-", "5", "\n">>,
      SufB \o <<":", "0", "0", "7", "\n">>,
      SufA \o <<"\n">>,
      <<"\n">>,
      SufA \o <<":", "x", "\n">>,
      SufA \o <<":", "5">>,
      SufA \o <<":", "5", "\r">>,
      SufA \o <<":", "\n">>,
      SufA \o <<":", "1", ":", "2", "\n">>,
      ToLower(SufA) \o <<":", "9", "\n">> }

RECURSIVE TextsOf(_)
\* the texts made of exactly n pieces
TextsOf(n) ==
    IF n = 0 THEN {<<>>}
    ELSE {t \o piece : t \in TextsOf(n - 1), piece \in LinePieces}

Texts == UNION {TextsOf(n) : n \in 0..MaxLines}

DigestArgs == {hash_password("password"), hash_password("pass611807")}

InitFn ==
    /\ InitApp
    /\ overflow_checks \in BOOLEAN
    /\ text \in Texts
    /\ digest \in DigestArgs
    /\ parsed = <<>>
    /\ matched = PanicResult
    /\ stage = "input"

ParseStep ==
    /\ stage = "input"
    /\ parsed' = parse_results(text)
    /\ stage' = "parsed"
    /\ UNCHANGED <<text, digest, matched, overflow_checks, appVars>>

MatchStep ==
    /\ stage = "parsed"
    /\ matched' = BreachResult_new(text, digest, overflow_checks)
    /\ stage' = "matched"
    /\ UNCHANGED <<text, digest, parsed, overflow_checks, appVars>>

NextFn == ParseStep \/ MatchStep

FnSpec == InitFn /\ [][NextFn]_vars

-----------------------------------------------------------------------------
(* Properties of the application (checked under Spec).                     *)

\* does text s contain sub as a contiguous piece
Contains(s, sub) ==
    \E i \in 1..(Len(s) - Len(sub) + 1) : SubSeq(s, i, i + Len(sub) - 1) = sub

\* the lookups still running: neither delivered nor dead
InFlight == {t \in tasks : t.pc \in {"created", "sent"}}

\* the digest of each password, computed once
DigestOf == [p \in Passwords |-> hash_password(p)]

\* C1: every request is the fixed URL followed by exactly the first five
\* characters of the digest of the password stored at Submit; it does not
\* contain the other 35 characters, and lookups whose digests agree on the
\* first five characters send identical requests.
C1_RequestCarriesOnlyPrefix ==
    /\ \A r \in BagToSet(requests) :
          LET d == DigestOf[r.pw]
          IN  /\ Len(r.url) = Len(BaseUrl) + 5
              /\ SubSeq(r.url, 1, Len(BaseUrl)) = BaseUrl
              /\ \A i \in 1..5 : r.url[Len(BaseUrl) + i] = d[i]
              /\ ~Contains(r.url, SubSeq(d, 6, Len(d)))
    /\ \A r1, r2 \in BagToSet(requests) :
          SubSeq(DigestOf[r1.pw], 1, 5) = SubSeq(DigestOf[r2.pw], 1, 5)
              => r1.url = r2.url

\* two lookups for different passwords (different digests, same prefix) were sent
C1_Witness ==
    \E r1, r2 \in BagToSet(requests) :
        /\ r1.pw # r2.pw
        /\ DigestOf[r1.pw] # DigestOf[r2.pw]
        /\ r1.url = r2.url

\* match(parseCandidates(B), digest(p)) for the bodies and passwords of the
\* model, computed once
MatchOf ==
    [c \in BOOLEAN, p \in Passwords \ {""}, b \in Bodies |->
        Match(parse_results(b), hash_password(p), c)]

\* C2: right after a BreachResult message of a lookup whose transport
\* succeeded with body B, the outcome is Breaches(r) with r the match of the
\* candidates parsed from B against the digest of the password that was
\* stored when that lookup's Submit was processed; for "password" and the
\* range body with its suffix and count 3730471, r is sites 1, occurrences
\* 3730471.
C2_SuccessResolvesToMatch ==
    (msg.kind = "BreachResult" /\ msg.transport.kind = "ok") =>
        LET r == MatchOf[overflow_checks, msg.task.pw, msg.transport.body]
        IN  /\ ~r.panicked
            /\ state = Breaches(r.value)
            /\ (msg.task.pw = "password" /\ msg.transport.body = BodyRange)
                   => state.breach = [sites |-> 1, ocurances |-> ToU64(3730471)]

\* the result for "password" arrives after the password was edited to another one
C2_Witness ==
    /\ msg.kind = "BreachResult"
    /\ msg.transport.kind = "ok"
    /\ msg.transport.body = BodyRange
    /\ msg.task.pw = "password"
    /\ password = "pass611807"
    /\ state = Breaches([sites |-> 1, ocurances |-> ToU64(3730471)])

\* C4: the outcome starts as NotSubmitted, a Submit processed in
\* NotSubmitted gives Searching, and a BreachResult message carrying the
\* connection error gives Errored with the error's text, never Breaches.
C4_ConnectionErrorFails ==
    /\ (msg.kind = "none" => state = NotSubmitted)
    /\ (msg.kind = "Submit" /\ prev = "NotSubmitted" => state = Searching)
    /\ (msg.kind = "BreachResult" /\ msg.transport.kind = "send_err"
            => state = Errored(SendErrorText))

\* the only Submit so far, made in NotSubmitted, failed with a connection
\* error while the outcome was still Searching
C4_Witness ==
    /\ nSubmits = 1
    /\ msg.kind = "BreachResult"
    /\ msg.transport.kind = "send_err"
    /\ prev = "Searching"
    /\ state = Errored(SendErrorText)

\* C5: right after a BreachResult message of a lookup that the service
\* answered with a status other than 200, the outcome is Errored.
C5_NonSuccessStatusFails ==
    (msg.kind = "BreachResult" /\ msg.transport.kind = "ok" /\ msg.transport.status # 200)
        => state.kind = "Errored"

\* C7: as long as Submit is the message processed last, the outcome is
\* Searching and the lookup it started has not delivered its result,
\* whatever the outcome was before.
C7_SubmitSetsSearching ==
    msg.kind = "Submit" =>
        /\ state = Searching
        /\ \E t \in tasks : t.id = nSubmits

\* a Submit processed while the outcome was Breaches
C7_Witness ==
    /\ msg.kind = "Submit"
    /\ prev = "Breaches"
    /\ state = Searching

\* C6: right after an Input the outcome is NotSubmitted, and
\* from an Input that replaced a Breaches outcome until the next Submit the
\* outcome is NotSubmitted.
C6_StaysNotSubmittedUntilSubmit ==
    /\ (msg.kind = "Input" => state = NotSubmitted)
    /\ (resolved_edit => state = NotSubmitted)

\* C8 as claimed: the number of requests issued equals the number of Submit
\* messages processed, in every state.
C8_RequestsEqualSubmits == BagCardinality(requests) = nSubmits

\* C8 as amended: every Submit yields one lookup task, every lookup task
\* issues one request, when the runtime starts it, and nothing else issues
\* one: the requests issued are as many as the Submits processed whose task
\* has started, at most one per task, so never more than the Submits; no
\* other message, and no failed lookup, adds a task or a request.
C8_OneRequestPerSubmit ==
    /\ BagCardinality(requests) = nSubmits - Cardinality({t \in tasks : t.pc = "created"})
    /\ BagCardinality(requests) <= nSubmits
    /\ \A r \in BagToSet(requests) : CopiesIn(r, requests) = 1
    /\ \A r1, r2 \in BagToSet(requests) : r1.task = r2.task => r1 = r2
    /\ \A t1, t2 \in tasks : t1.id = t2.id => t1 = t2
    /\ \A t \in tasks : t.id \in 1..nSubmits
    /\ \A i \in 1..nSubmits :
          \/ \E r \in BagToSet(requests) : r.task = i
          \/ \E t \in tasks : t.id = i /\ t.pc = "created"
    /\ (msg.kind = "Submit" => \E t \in tasks : t.id = nSubmits)

\* the one lookup failed, its request was the only one, and nothing is running
C8_Witness ==
    /\ nSubmits = 1
    /\ BagCardinality(requests) = 1
    /\ msg.kind = "BreachResult"
    /\ state.kind = "Errored"
    /\ tasks = {}

-----------------------------------------------------------------------------
(* Properties of the parser and the matcher (checked under FnSpec).  The    *)
(* lines of a text and the validity of a line are stated here by position, *)
(* apart from the definitions that model the code.                         *)

\* positions where a line of t starts
LineStarts(t) == {p \in 1..Len(t) : p = 1 \/ t[p - 1] = "\n"}

\* position of the line feed ending the line that starts at p, Len(t) + 1 if none
LineStop(t, p) ==
    CHOOSE e \in p..(Len(t) + 1) :
        /\ e = Len(t) + 1 \/ t[e] = "\n"
        /\ \A j \in p..(e - 1) : t[j] # "\n"

\* the line that starts at p, without its line feed or carriage return + line feed
LineAt(t, p) ==
    LET e   == LineStop(t, p)
        raw == SubSeq(t, p, e - 1)
    IN  IF e <= Len(t) /\ raw # <<>> /\ raw[Len(raw)] = "\r"
        THEN SubSeq(raw, 1, Len(raw) - 1)
        ELSE raw

HasColon(l) == \E k \in 1..Len(l) : l[k] = ":"

FirstColon(l) == CHOOSE k \in 1..Len(l) : l[k] = ":" /\ \A j \in 1..(k - 1) : l[j] # ":"

SuffixText(l) == SubSeq(l, 1, FirstColon(l) - 1)

CountText(l) == SubSeq(l, FirstColon(l) + 1, Len(l))

DigitChars == {"0", "1", "2", "3", "4", "5", "6", "7", "8", "9"}

\* the digits of a count text: one leading "+" is not part of them
Unsigned(c) == IF c # <<>> /\ c[1] = "+" THEN SubSeq(c, 2, Len(c)) ELSE c

\* a non-negative base-10 integer of any size
IsDecimalNumeral(c) ==
    /\ Unsigned(c) # <<>>
    /\ \A i \in 1..Len(Unsigned(c)) : Unsigned(c)[i] \in DigitChars

\* digits without their leading zeros
Significant(ds) ==
    IF \A i \in 1..Len(ds) : ds[i] = "0" THEN <<>>
    ELSE SubSeq(ds, CHOOSE i \in 1..Len(ds) : ds[i] # "0" /\ \A j \in 1..(i - 1) : ds[j] = "0",
                Len(ds))

DigitRank(c) == CHOOSE n \in 0..9 : DecDigits[n + 1] = c

\* the numeral ds denotes at most 2^64 - 1 = 18446744073709551615
AtMostU64Max(ds) ==
    LET z == Significant(ds)
    IN  \/ Len(z) < Len(CountMax)
        \/ /\ Len(z) = Len(CountMax)
           /\ \/ z = CountMax
              \/ \E i \in 1..Len(z) :
                    /\ DigitRank(z[i]) < DigitRank(CountMax[i])
                    /\ \A j \in 1..(i - 1) : z[j] = CountMax[j]

\* a line the claim says yields a candidate
ValidLine(l) == HasColon(l) /\ IsDecimalNumeral(CountText(l))

\* the same, with the count limited to 64 bits
ValidLine64(l) == ValidLine(l) /\ AtMostU64Max(Unsigned(CountText(l)))

\* the candidates are exactly those of the lines starting at the positions in V
EmitsExactly(t, V) ==
    /\ Len(parsed) = Cardinality(V)
    /\ \A p \in V : \E i \in DOMAIN parsed : parsed[i][1] = SuffixText(LineAt(t, p))
    /\ \A i \in DOMAIN parsed : \E p \in V : parsed[i][1] = SuffixText(LineAt(t, p))

\* C9 as claimed: a line yields a candidate if and only if it has a colon
\* and the text after its first colon is a non-negative base-10 integer.
C9_EmitsIffDecimalCount ==
    stage # "input" =>
        EmitsExactly(text, {p \in LineStarts(text) : ValidLine(LineAt(text, p))})

\* C9 as amended: a line yields a candidate if and only if it has a colon
\* and the text after its first colon is a non-negative base-10 integer (one
\* leading "+" allowed) that is at most 2^64 - 1; every other line is
\* dropped and the rest is unaffected.
C9_EmitsIffU64Count ==
    stage # "input" =>
        EmitsExactly(text, {p \in LineStarts(text) : ValidLine64(LineAt(text, p))})

\* a text with a valid line and with a line each of the kinds that are
\* dropped: no colon, blank, a count that is no number
C9_Witness ==
    /\ stage = "parsed"
    /\ Len(parsed) = 1
    /\ \E p, q \in LineStarts(text) :
          /\ p # q
          /\ ValidLine64(LineAt(text, p))
          /\ ~HasColon(LineAt(text, q))

\* a u64 as a number one limb wider, in which sums are exact
Widen(x) == [i \in 1..(NLimbs + 1) |-> IF i <= NLimbs THEN x[i] ELSE 0]

RECURSIVE WideAdd(_, _, _, _)
WideAdd(w, y, carry, i) ==
    IF i > NLimbs + 1 THEN w
    ELSE LET v == w[i] + y[i] + carry
         IN  WideAdd([w EXCEPT ![i] = v % LimbBase], y, v \div LimbBase, i + 1)

RECURSIVE ExactSum(_, _)
\* the sum of the counts of the candidates cands[i], i in I, without any wrap
ExactSum(cands, I) ==
    IF I = {} THEN Widen(U64Zero)
    ELSE LET i == CHOOSE j \in I : TRUE
         IN  WideAdd(ExactSum(cands, I \ {i}), Widen(cands[i][2]), 0, 1)

\* the candidates whose suffix text is the digest without its first five characters
Hits(cands, d) == {i \in DOMAIN cands : cands[i][1] = SubSeq(d, 6, Len(d))}

\* C3: for every candidate sequence and 40-character digest, match returns
\* sites = the number of candidates whose suffix equals digest[5..] and
\* occurrences = the sum of their counts, both 0 when none matches, and the
\* same result for every permutation of the candidates.
C3_MatchCountsAndSums ==
    stage = "matched" =>
        /\ Len(digest) = 40
        /\ ~matched.panicked
        /\ matched.value.sites = Cardinality(Hits(parsed, digest))
        /\ Widen(matched.value.ocurances) = ExactSum(parsed, Hits(parsed, digest))
        /\ (Hits(parsed, digest) = {} => matched.value = [sites |-> 0, ocurances |-> U64Zero])
        /\ \A f \in Permutations(DOMAIN parsed) :
              Match([i \in DOMAIN parsed |-> parsed[f[i]]], digest, overflow_checks) = matched

\* the valid lines of t, by start position, and the k-th of them
ValidStarts(t) == {p \in LineStarts(t) : ValidLine64(LineAt(t, p))}

NthValid(t, k) ==
    CHOOSE p \in ValidStarts(t) : Cardinality({q \in ValidStarts(t) : q < p}) = k - 1

\* C10: the candidates are those of the valid lines, one per line and in
\* the order of the lines, duplicates included; and match counts every one
\* of them whose suffix is the digest's in sites and adds every such count
\* into occurrences.
C10_OrderAndDuplicatesKept ==
    /\ stage # "input" =>
          /\ Len(parsed) = Cardinality(ValidStarts(text))
          /\ \A k \in DOMAIN parsed :
                LET l == LineAt(text, NthValid(text, k))
                IN  parsed[k] = <<SuffixText(l), FromStrRadix(CountText(l)).val>>
    /\ stage = "matched" =>
          LET same == {p \in ValidStarts(text) :
                          SuffixText(LineAt(text, p)) = SubSeq(digest, 6, Len(digest))}
          IN  /\ ~matched.panicked
              /\ matched.value.sites = Cardinality(same)
              /\ Widen(matched.value.ocurances) = ExactSum(parsed, Hits(parsed, digest))

(***************************************************************************)
(* BreachResult::new on every kind of digest argument                      *)
(***************************************************************************)

\* `hash: &str` of BreachResult::new is any string: besides the two full
\* digests, the digest of the empty password (the empty string), a string
\* one character short of the prefix, and a string that is the prefix alone
AnyDigests ==
    DigestArgs \cup
        { hash_password(""),
          SliceTo(hash_password("password"), PrefixLen - 1),
          SliceTo(hash_password("password"), PrefixLen) }

InitFnAny ==
    /\ InitApp
    /\ overflow_checks \in BOOLEAN
    /\ text \in Texts
    /\ digest \in AnyDigests
    /\ parsed = <<>>
    /\ matched = PanicResult
    /\ stage = "input"

FnAnySpec == InitFnAny /\ [][NextFn]_vars

\* C11: BreachResult::new is total: for every response text and every digest
\* string it returns a BreachResult and never panics.
C11_MatchIsTotal ==
    stage = "matched" => ~matched.panicked

(***************************************************************************)
(* Claims about the application, continued (specification Spec)            *)
(***************************************************************************)

UpperHexChars == {HexDigits[i] : i \in DOMAIN HexDigits}

IsDigestText(h) ==
    /\ Len(h) = 40
    /\ \A i \in DOMAIN h : h[i] \in UpperHexChars

\* C12: the digest of the empty password is the empty string, the digest of
\* a non-empty password is 40 uppercase hexadecimal characters, and the
\* digest taken when the password is edited and the one taken when it is
\* submitted are the same for the same password.
C12_DigestShapeAndDeterminism ==
    /\ password = "" => current_hash = <<>>
    /\ password # "" => IsDigestText(current_hash)
    /\ \A t \in tasks :
          /\ IsDigestText(t.hash)
          /\ t.pw = password => t.hash = current_hash
          /\ \A u \in tasks : u.pw = t.pw => u.hash = t.hash

C12_Witness ==
    /\ password = "password"
    /\ current_hash[1] = "5"
    /\ \E t \in tasks : \E u \in tasks :
          /\ t.id # u.id
          /\ t.pw = password
          /\ u.pw = password
          /\ u.hash = current_hash

\* C13: the view offers Submit only when the stored password is non-empty, so
\* a Submit is processed only with a non-empty password, no lookup is started
\* with an empty digest, and hash[..5] is defined for every lookup; every
\* request sent carries a five-character prefix.
C13_NoEmptyDigestLookup ==
    /\ msg.kind = "Submit" => password # ""
    /\ \A t \in tasks :
          /\ t.pw # ""
          /\ t.hash # <<>>
          /\ SliceDefined(t.hash, PrefixLen)
    /\ \A r \in BagToSet(requests) :
          Len(r.url) = Len(BaseUrl) + PrefixLen

C13_Witness ==
    /\ msg.kind = "Submit"
    /\ \E t \in tasks :
          /\ t.id = nSubmits
          /\ t.pc = "sent"
          /\ t.pw = password

\* the outcome update stores for a delivered result
Delivered(m) ==
    IF m.transport.kind = "ok"
    THEN Breaches(MatchOf[overflow_checks, m.task.pw, m.transport.body].value)
    ELSE Errored(IF m.transport.kind = "send_err" THEN SendErrorText ELSE BodyErrorText)

\* C14: results are not tagged: right after the result of a lookup is
\* delivered, the outcome is that result, also when a later Submit had been
\* processed in between (the stale result replaces the newer Searching) and
\* also when the outcome before was a result already (the later lookup's
\* result replaces the stale one).
C14_StaleResultOverwrites ==
    /\ (msg.kind = "BreachResult" /\ msg.task.id < nSubmits)
           => /\ state = Delivered(msg)
              /\ state.kind \in {"Breaches", "Errored"}
    /\ (msg.kind = "BreachResult" /\ prev \in {"Breaches", "Errored"})
           => state = Delivered(msg)

\* the first lookup's result replaced the Searching of the second Submit while
\* the second lookup was still running
C14_StaleOverwriteReached ==
    /\ nSubmits = 2
    /\ msg.kind = "BreachResult"
    /\ msg.task.id = 1
    /\ prev = "Searching"
    /\ state = Delivered(msg)
    /\ \E t \in InFlight : t.id = 2

\* both overwrites in one run: of two Submits, the second lookup's failure
\* replaced a Breaches outcome, which only the first lookup's result,
\* delivered after the second Submit, can have stored
C14_Witness ==
    /\ nSubmits = 2
    /\ msg.kind = "BreachResult"
    /\ msg.task.id = 2
    /\ prev = "Breaches"
    /\ state.kind = "Errored"
    /\ tasks = {}

\* C15: whenever the outcome is a result (Breaches or Errored) just stored by
\* a BreachResult message, the lookup that produced it was made for the
\* digest of the password stored now.
C15_OutcomeIsForCurrentPassword ==
    (msg.kind = "BreachResult" /\ state.kind \in {"Breaches", "Errored"})
        => /\ msg.task.hash = current_hash
           /\ msg.task.pw = password

\* the candidates of each body of the model, parsed once
ParsedOf == [b \in Bodies |-> parse_results(b)]

\* for a digest d and a body b: how many candidates of b carry d[5..] and the
\* exact sum of their counts
SuffixHits(d, b) ==
    LET hits == Hits(ParsedOf[b], d)
    IN  [sites |-> Cardinality(hits), sum |-> ExactSum(ParsedOf[b], hits)]

\* C17: every lookup holds the digest of the password that was stored when
\* its Submit was processed, whatever the password is now; the request
\* carries the first five characters of that digest and the match compares
\* against its other 35, and the two slices put together are the digest.
C17_SlicesOfCapturedDigest ==
    /\ \A t \in tasks :
          /\ t.hash = DigestOf[t.pw]
          /\ Len(SliceTo(t.hash, PrefixLen)) = 5
          /\ Len(SliceFrom(t.hash, PrefixLen)) = 35
          /\ SliceTo(t.hash, PrefixLen) \o SliceFrom(t.hash, PrefixLen) = t.hash
    /\ \A r \in BagToSet(requests) :
          /\ r.hash = DigestOf[r.pw]
          /\ SubSeq(r.url, Len(BaseUrl) + 1, Len(r.url)) = SliceTo(r.hash, PrefixLen)
          /\ \A t \in tasks : t.id = r.task => t.hash = r.hash
    /\ (msg.kind = "BreachResult" /\ msg.transport.kind = "ok") =>
          LET h == SuffixHits(msg.task.hash, msg.transport.body)
          IN  /\ msg.task.hash = DigestOf[msg.task.pw]
              /\ \E r \in BagToSet(requests) :
                    r.task = msg.task.id /\ r.hash = msg.task.hash
              /\ state.kind = "Breaches"
              /\ state.breach.sites = h.sites
              /\ h.sum[NLimbs + 1] = 0 => Widen(state.breach.ocurances) = h.sum

\* a lookup submitted for "pass611807" whose result arrived after the
\* password was edited to "password": the count is the one of its own suffix
C17_Witness ==
    /\ msg.kind = "BreachResult"
    /\ msg.transport.body = BodyRange
    /\ msg.task.pw = "pass611807"
    /\ password = "password"
    /\ current_hash # msg.task.hash
    /\ state = Breaches([sites |-> 1, ocurances |-> ToU64(7)])

\* C18: in every reachable state the shown digest is the digest of the
\* stored password: the empty string for the empty password, its 40
\* characters otherwise.
C18_CurrentHashIsDigestOfPassword ==
    /\ current_hash = hash_password(password)
    /\ current_hash = <<>> <=> password = ""

\* after edits, a Submit, a result and a toggle, with a non-empty password
C18_Witness ==
    /\ password = "pass611807"
    /\ current_hash = UpperHex(Sha1("pass611807"))
    /\ msg.kind = "ShowPassword"
    /\ show
    /\ state.kind = "Breaches"
    /\ nSubmits > 0

\* C19: while the outcome is Searching, at least one lookup started by a
\* Submit has not delivered its result, and the latest Submit's lookup is
\* such a one.
C19_SearchingHasUndeliveredLookup ==
    state = Searching =>
        /\ tasks # {}
        /\ nSubmits > 0
        /\ \E t \in tasks : t.id = nSubmits

\* the converse fails: a lookup is still running while the outcome is not
\* Searching, here after the other lookup's result was stored
C19_Witness ==
    /\ state.kind \in {"Breaches", "Errored"}
    /\ msg.kind = "BreachResult"
    /\ InFlight # {}

\* lookups outstanding while the outcome is NotSubmitted
C19_OutstandingWhileNotSubmitted ==
    /\ state = NotSubmitted
    /\ InFlight # {}

\* C20: a ShowPassword message changes only show; Submit and BreachResult
\* messages change only the outcome and leave password, current_hash and show
\* as they were; an Input message leaves show as it was.
C20_FrameEffects ==
    [][ /\ msg'.kind = "ShowPassword"
            => /\ password' = password
               /\ current_hash' = current_hash
               /\ state' = state
        /\ msg'.kind \in {"Submit", "BreachResult"}
            => /\ password' = password
               /\ current_hash' = current_hash
               /\ show' = show
        /\ msg'.kind = "Input" => show' = show ]_vars

\* the checkbox was ticked while a result for a non-empty password was shown
C20_Witness ==
    /\ msg.kind = "ShowPassword"
    /\ show
    /\ prev = "Breaches"
    /\ state.kind = "Breaches"
    /\ password # ""
    /\ current_hash # <<>>

(***************************************************************************)
(* Lookups that complete: the runtime polls every task it was handed, and  *)
(* a request that was sent is eventually answered or fails                 *)
(***************************************************************************)

FairSpec == Spec /\ WF_vars(PollLookup) /\ WF_vars(BreachResult)

\* the part of C16 every run satisfies: the outcome leaves Searching only by
\* a delivered BreachResult (to Breaches or Errored) or by an Input (to
\* NotSubmitted); nothing else, and no passing of time, ends it
C16_SearchingLeftOnlyByResultOrInput ==
    [][ (state = Searching /\ state' # Searching)
            => \/ msg'.kind = "BreachResult" /\ state'.kind \in {"Breaches", "Errored"}
               \/ msg'.kind = "Input" /\ state' = NotSubmitted ]_vars

\* C16: when lookups complete fairly, every Searching outcome is eventually
\* left.
C16_SearchingEventuallyLeft ==
    (state = Searching) ~> (state # Searching)

\* a Searching outcome is left unless some lookup task has panicked
C16_LeftUnlessLookupPanics ==
    (state = Searching) ~> (state # Searching \/ \E t \in tasks : t.pc = "panicked")

====
